---------------------------- MODULE Spec2Model ----------------------------
(***************************************************************************)
(* Apophenia: the data generator (src/src/utils/dataGenerator.ts) and the  *)
(* round state machine (src/src/App.tsx) with the Lineup and Rorschach     *)
(* components that call the generator.                                     *)
(*                                                                         *)
(* JavaScript numbers are modelled as exact rationals num/den (den > 0),   *)
(* NaN as 0/0 and Infinity as 1/0; floating-point rounding is not          *)
(* modelled.  Math.random() returns k/Grid for k in 0..Grid-1.             *)
(***************************************************************************)
EXTENDS Integers, Sequences, FiniteSets, TLC

VARIABLES
    gameState,  \* App: the GameState held by useState
    lineup,     \* LineupProtocol: mounted, datasets, selectedIndex, initializedRoundRef
    rorschach,  \* RorschachProtocol: mounted, datasets
    crashed,    \* a render threw and React removed the component tree
    calls,      \* the dataGenerator calls made by the last handler and its re-render
    answers,    \* this game's confirmed answers: was the clicked plot the true one
    clicked,    \* the plot of this round's last selecting click (0: none yet)
    restarted,  \* whether the game being set up follows a restart (until a protocol is chosen)
    fn,         \* dataGenerator function applied directly ("none" before the call)
    args,       \* its arguments
    ret,        \* its outcome: [thrown |-> BOOLEAN, value |-> ...]
    host,       \* the globals and storage of the page: "untouched" or "written"
    sessionInitPromise, \* apiService: the cached promise (0: null)
    promises,   \* the promises initGameSession created, in order
    timers,     \* the promises whose 5-second clearing timer is running
    localStorage,       \* the stored session: "none", "fresh" (< 3 s old), "stale"
    returned,   \* the promise each initGameSession call returned, in order
    sessionData,        \* useApopheniaData: lineupData of the session data
    lineupRoundStartTime \* its ref: TRUE when set, FALSE when null

appVars == <<gameState, lineup, rorschach, crashed, calls, answers, clicked, restarted>>
genVars == <<fn, args, ret, host>>
apiVars == <<sessionInitPromise, promises, timers, localStorage, returned>>
hookVars == <<sessionData, lineupRoundStartTime>>
notAppVars == <<genVars, apiVars, hookVars>>
notGenVars == <<appVars, apiVars, hookVars>>
notApiVars == <<appVars, genVars, hookVars>>
notHookVars == <<appVars, genVars, apiVars>>
vars == <<appVars, genVars, apiVars, hookVars>>

\* no dataGenerator function applied yet
GenIdle == fn = "none" /\ args = <<>> /\ ret = <<>> /\ host = "untouched"

---------------------------------------------------------------------------
(* Bounds of the model *)

MaxN == 3       \* largest plot count config.n
MaxScore == 3   \* correct answers are taken while score < MaxScore
MaxApiCalls == 4 \* calls of initGameSession
MaxRounds == 2  \* round records kept in the session data
MaxR == 2       \* largest points-per-plot config.r
MaxLen == 3     \* longest array handed to shuffleArray on its own
Grid == 3       \* Math.random() takes the values 0/Grid .. (Grid-1)/Grid

---------------------------------------------------------------------------
(* JavaScript values *)

RECURSIVE GCD(_, _)
GCD(a, b) == IF b = 0 THEN a ELSE GCD(b, a % b)

Abs(a) == IF a < 0 THEN -a ELSE a

\* the number n/d, d > 0, in lowest terms
Num(n, d) ==
    LET g == GCD(Abs(n), d)
    IN  [t |-> "number", num |-> n \div g, den |-> d \div g]

NaN == [t |-> "number", num |-> 0, den |-> 0]
Infinity == [t |-> "number", num |-> 1, den |-> 0]
Undefined == [t |-> "undefined", num |-> 0, den |-> 0]

TypeofNumber(v) == v.t = "number"
IsFinite(v) == v.t = "number" /\ v.den # 0

\* a + b
JSAdd(a, b) ==
    IF IsFinite(a) /\ IsFinite(b)
    THEN Num(a.num * b.den + b.num * a.den, a.den * b.den)
    ELSE IF (a = Infinity /\ IsFinite(b)) \/ (IsFinite(a) /\ b = Infinity)
              \/ (a = Infinity /\ b = Infinity)
         THEN Infinity
         ELSE NaN

\* a * b, for b > 0
JSMul(a, b) ==
    IF IsFinite(a) /\ IsFinite(b)
    THEN Num(a.num * b.num, a.den * b.den)
    ELSE IF a = Infinity /\ IsFinite(b) /\ b.num > 0
         THEN Infinity
         ELSE NaN

\* a < b
JSLess(a, b) ==
    IsFinite(a) /\ IsFinite(b) /\ a.num * b.den < b.num * a.den

\* the truthiness of a value, as || and && test it
Truthy(v) == (IsFinite(v) /\ v.num # 0) \/ v = Infinity

\* Math.random(): the draws k stand for k/Grid
MathRandom == 0 .. (Grid - 1)

\* Math.floor(Math.random() * m) for the draw u
RandomFloor(u, m) == (u * m) \div Grid

\* Math.random() * 10 for the draw u
RandomTimes10(u) == Num(10 * u, Grid)

\* RandomBelow with <= for <
RandomBelow_OrEqual(u, p) ==
    JSLess(Num(u, Grid), p) \/ (IsFinite(p) /\ u * p.den = p.num * Grid)

\* Math.random() < p for the draw u
RandomBelow(u, p) == JSLess(Num(u, Grid), p)

---------------------------------------------------------------------------
(* Configurations (types.ts GameConfig / FunctionConfig).  The text of a   *)
(* user procedure is modelled by a name that stands for what the text      *)
(* does when it is compiled and run.                                       *)

\* an optional string field that is not set
NoCode == "<absent>"

\* generator procedure texts (funcConfig.code)
GeneratorCodes ==
    { "generateData",    \* defines generateData(n, noiseLevel): y = 2x + 1 + noiseLevel
      "short",           \* generateData returns n - 1 well-formed points
      "writesHost",      \* generateData calls localStorage.clear(), then as "generateData"
      "syntaxError",     \* the text does not compile
      "throws",          \* generateData throws
      "nonArray",        \* generateData returns a number
      "nonObjectItem",   \* generateData returns an array of numbers
      "missingY",        \* generateData returns points without y
      "nanY",            \* generateData returns points whose y is NaN
      "otherName" }      \* defines makePoints(n, noiseLevel) only, no generateData

\* progression procedure texts (funcConfig.noiseStepCode)
StepCodes ==
    { NoCode,            \* field not set
      "",                \* empty text
      "add03",           \* updateNoiseLevel returns currentLevel + 0.3
      "writesHost",      \* updateNoiseLevel calls localStorage.clear(), then as "add03"
      "decrease",        \* updateNoiseLevel returns currentLevel + (-0.1)
      "syntaxError",     \* the text does not compile
      "noCallable",      \* the text defines no updateNoiseLevel
      "throws",          \* updateNoiseLevel throws
      "returnsUndefined" }  \* updateNoiseLevel returns nothing

\* the truthiness of an optional string
StringTruthy(s) == s # NoCode /\ s # ""

GameConfig(n, r, hasFuncConfig, code, noiseStepCode, initialNoiseLevel) ==
    [method |-> "function", n |-> n, r |-> r, hasFuncConfig |-> hasFuncConfig,
     code |-> code, noiseStepCode |-> noiseStepCode,
     initialNoiseLevel |-> initialNoiseLevel]

\* an outcome of a call: a returned value or a thrown error
Return(v) == [thrown |-> FALSE, value |-> v]
Throw == [thrown |-> TRUE, value |-> <<>>]

---------------------------------------------------------------------------
(* dataGenerator.ts *)

\* a well-formed item {x, y} a procedure returns
Item(x, y) == [isObject |-> TRUE, x |-> x, y |-> y]

\* the host state after a compiled user text has run: the body of
\* new Function is evaluated in the global scope, with this = {} or
\* undefined, so the globals the text names are the page's own
HostAfter(code, before) == IF code = "writesHost" THEN "written" ELSE before

\* the compiled generateFunction applied to (count, noiseLevel): what the
\* wrapper around the user's text returns or throws
RunGenerator(code, count, noiseLevel) ==
    LET m == IF count > 0 THEN count ELSE 0
        Linear(len) ==
            [i \in 1 .. len |->
                Item(Num(i - 1, 1),
                     JSAdd(Num(2 * (i - 1) + 1, 1), noiseLevel))]
    IN  CASE code \in { "generateData", "writesHost" } ->
                [thrown |-> FALSE, isArray |-> TRUE, items |-> Linear(m)]
          [] code = "short" ->
                [thrown |-> FALSE, isArray |-> TRUE,
                 items |-> Linear(IF m > 0 THEN m - 1 ELSE 0)]
          [] code = "nonArray" ->
                [thrown |-> FALSE, isArray |-> FALSE, items |-> <<>>]
          [] code = "nonObjectItem" ->
                [thrown |-> FALSE, isArray |-> TRUE,
                 items |-> [i \in 1 .. m |->
                              [isObject |-> FALSE, x |-> Undefined, y |-> Undefined]]]
          [] code = "missingY" ->
                [thrown |-> FALSE, isArray |-> TRUE,
                 items |-> [i \in 1 .. m |-> Item(Num(i - 1, 1), Undefined)]]
          [] code = "nanY" ->
                [thrown |-> FALSE, isArray |-> TRUE,
                 items |-> [i \in 1 .. m |-> Item(Num(i - 1, 1), NaN)]]
          \* "syntaxError": new Function throws; "throws": generateData throws;
          \* "otherName": this = {} has no keys and eval(code) names no binding
          [] OTHER ->
                [thrown |-> TRUE, isArray |-> FALSE, items |-> <<>>]

\* the validation of one item of the result
ItemValid(item) ==
    item.isObject /\ TypeofNumber(item.x) /\ TypeofNumber(item.y)

\* FallbackData as Array(count - 1)
FallbackData_Short(count, draws) ==
    IF count < 0
    THEN Throw
    ELSE Return([i \in 1 .. (count - 1) |->
                    [x |-> RandomTimes10(draws[2 * i - 1]),
                     y |-> RandomTimes10(draws[2 * i])]])

\* the dataset of the catch branch: count points drawn with Math.random() * 10
FallbackData(count, draws) ==
    IF count < 0
    THEN Throw      \* Array(count): RangeError, outside the try
    ELSE Return([i \in 1 .. count |->
                    [x |-> RandomTimes10(draws[2 * i - 1]),
                     y |-> RandomTimes10(draws[2 * i])]])

\* the draws the catch branch consumes
FallbackDraws(count, sample) ==
    [1 .. (IF count > 0 THEN 2 * count ELSE 0) -> sample]

\* GenerateFromFunction with the check of item.y left out
GenerateFromFunction_NoYCheck(code, count, noiseLevel, draws) ==
    LET result == RunGenerator(code, count, noiseLevel)
    IN  IF /\ ~result.thrown
           /\ result.isArray
           /\ \A i \in 1 .. Len(result.items) :
                 result.items[i].isObject /\ TypeofNumber(result.items[i].x)
        THEN Return([i \in 1 .. Len(result.items) |->
                        [x |-> result.items[i].x, y |-> result.items[i].y]])
        ELSE FallbackData(count, draws)

\* whether the try block ends in the catch branch
UsesFallback(code, count, noiseLevel) ==
    LET result == RunGenerator(code, count, noiseLevel)
    IN  \/ result.thrown
        \/ ~result.isArray
        \/ \E i \in 1 .. Len(result.items) : ~ItemValid(result.items[i])

GenerateFromFunction(code, count, noiseLevel, draws) ==
    LET result == RunGenerator(code, count, noiseLevel)
    IN  IF ~UsesFallback(code, count, noiseLevel)
        THEN Return([i \in 1 .. Len(result.items) |->
                        [x |-> result.items[i].x, y |-> result.items[i].y]])
        ELSE FallbackData(count, draws)

GenerateDataset(config, noiseLevel, draws) ==
    IF config.method = "function" /\ config.hasFuncConfig
    THEN GenerateFromFunction(config.code, config.r, noiseLevel, draws)
    ELSE Throw

\* the values of j = Math.floor(Math.random() * (i + 1))
RandomIndex(m) == { RandomFloor(u, m) : u \in MathRandom }

\* the draws of a shuffle whose j is Math.floor(Math.random() * array.length)
ShuffleDraws_Full(len) == [1 .. (len - 1) -> 0 .. (len - 1)]

\* the draws of one shuffle of an array of length len: js[i] is the j drawn
\* at index i (0-based), for i = len-1 down to 1
ShuffleDraws(len) ==
    { js \in [1 .. (len - 1) -> 0 .. (len - 1)] :
        \A i \in 1 .. (len - 1) : js[i] \in RandomIndex(i + 1) }

\* Swap as the two assignments array[i] = array[j]; array[j] = array[i]
Swap_Overwrite(array, i, j) ==
    [array EXCEPT ![i + 1] = array[j + 1]]

\* [array[i], array[j]] = [array[j], array[i]] on 0-based i, j
Swap(array, i, j) ==
    [array EXCEPT ![i + 1] = array[j + 1], ![j + 1] = array[i + 1]]

RECURSIVE ShuffleFrom(_, _, _)
ShuffleFrom(array, i, js) ==
    IF i <= 0 THEN array
    ELSE ShuffleFrom(Swap(array, i, js[i]), i - 1, js)

ShuffleArray(array, js) == ShuffleFrom(array, Len(array) - 1, js)

PermuteData(data, js) ==
    LET yValues == ShuffleArray([i \in 1 .. Len(data) |-> data[i].y], js)
    IN  [i \in 1 .. Len(data) |-> [x |-> data[i].x, y |-> yValues[i]]]

\* permuteData writing the shuffled y-values into the points of clonedData,
\* which are the points of data
PermuteDataInput_InPlace(data, js) == PermuteData(data, js)

\* the array data after permuteData(data) has returned: shuffleArray swaps
\* within yValues, an array of its own, and the returned points are new
\* objects, so no write reaches data or its points
PermuteDataInput(data, js) == data

\* the array trueData after the permuteData calls of the iterations 1..k,
\* the iteration `skip` making none
RECURSIVE TrueDataAfter(_, _, _, _)
TrueDataAfter(trueData, shuffle, skip, k) ==
    IF k <= 0 THEN trueData
    ELSE LET before == TrueDataAfter(trueData, shuffle, skip, k - 1)
         IN  IF k = skip THEN before
             ELSE PermuteDataInput(before, shuffle[k])

PlotData(data, index, isTrue) ==
    [data |-> data, index |-> index, isTrue |-> isTrue]

\* GenerateLineupData with the loop condition i < config.n
GenerateLineupData_ShortLoop(config, truePos, noiseLevel, rnd) ==
    LET trueData == GenerateDataset(config, noiseLevel, rnd.fallback)
    IN  IF trueData.thrown THEN Throw
        ELSE Return([i \in 1 .. (IF config.n > 1 THEN config.n - 1 ELSE 0) |->
                        IF i = truePos
                        THEN PlotData(trueData.value, i, TRUE)
                        ELSE PlotData(PermuteData(trueData.value, rnd.shuffle[i]),
                                      i, FALSE)])

\* GenerateLineupData with generateDataset called again for every decoy, the
\* i-th call drawing a catch branch shifted by i
GenerateLineupData_PerSlot(config, truePos, noiseLevel, rnd) ==
    LET trueData == GenerateDataset(config, noiseLevel, rnd.fallback)
        again(i) == GenerateDataset(config, noiseLevel,
                        [k \in 1 .. Len(rnd.fallback) |->
                            (rnd.fallback[k] + i) % Grid])
    IN  IF trueData.thrown THEN Throw
        ELSE Return([i \in 1 .. (IF config.n > 0 THEN config.n ELSE 0) |->
                        IF i = truePos
                        THEN PlotData(trueData.value, i, TRUE)
                        ELSE PlotData(PermuteData(again(i).value, rnd.shuffle[i]),
                                      i, FALSE)])

\* rnd.fallback: the draws of the generator's catch branch;
\* rnd.shuffle[i]: the draws of the i-th permuteData call
GenerateLineupData(config, truePos, noiseLevel, rnd) ==
    LET trueData == GenerateDataset(config, noiseLevel, rnd.fallback)
        n == IF config.n > 0 THEN config.n ELSE 0
        \* the slot at truePos holds the array trueData itself
        at(k) == TrueDataAfter(trueData.value, rnd.shuffle, truePos, k)
    IN  IF trueData.thrown THEN Throw
        ELSE Return([i \in 1 .. n |->
                        IF i = truePos
                        THEN PlotData(at(n), i, TRUE)
                        ELSE PlotData(PermuteData(at(i - 1), rnd.shuffle[i]),
                                      i, FALSE)])

\* config.funcConfig?.initialNoiseLevel || 0.5
InitialNoiseLevel(config) ==
    IF config.hasFuncConfig /\ Truthy(config.initialNoiseLevel)
    THEN config.initialNoiseLevel
    ELSE Num(1, 2)

\* datasets.splice(pos, 0, item)
SpliceInsert(datasets, pos, item) ==
    LET len == Len(datasets)
        start == IF pos < 0
                 THEN (IF len + pos < 0 THEN 0 ELSE len + pos)
                 ELSE (IF pos > len THEN len ELSE pos)
    IN  SubSeq(datasets, 1, start) \o <<item>> \o SubSeq(datasets, start + 1, len)

\* Reindex left out
Reindex_None(datasets) == datasets

\* datasets.forEach((dataset, idx) => { dataset.index = idx + 1 })
Reindex(datasets) ==
    [idx \in 1 .. Len(datasets) |-> [datasets[idx] EXCEPT !.index = idx]]

\* the position drawn for the true dataset among n decoys
RorschachTruePos(n, u) == RandomFloor(u, n + 1) + 1

\* rnd.show: the draw compared with p; rnd.pos: the draw of the position
GenerateRorschachData(config, p, rnd) ==
    LET initialNoiseLevel == InitialNoiseLevel(config)
        trueData == GenerateDataset(config, initialNoiseLevel, rnd.fallback)
        showTrue == RandomBelow(rnd.show, p)
        n == IF showTrue THEN config.n - 1 ELSE config.n
        m == IF n > 0 THEN n ELSE 0
        \* the inserted slot holds the array trueData itself
        at(k) == TrueDataAfter(trueData.value, rnd.shuffle, 0, k)
        nulls == [i \in 1 .. m |->
                    PlotData(PermuteData(at(i - 1), rnd.shuffle[i]), i, FALSE)]
        truePos == RorschachTruePos(n, rnd.pos)
    IN  IF trueData.thrown THEN Throw
        ELSE IF showTrue
             THEN Return(Reindex(SpliceInsert(nulls, truePos - 1,
                                    PlotData(at(m), truePos, TRUE))))
             ELSE Return(nulls)

\* the compiled updateFunction applied to currentLevel
RunNoiseStep(code, currentLevel) ==
    CASE code \in { "add03", "writesHost" } -> Return(JSAdd(currentLevel, Num(3, 10)))
      [] code = "decrease" -> Return(JSAdd(currentLevel, Num(-1, 10)))
      [] code = "returnsUndefined" -> Return(Undefined)
      \* "syntaxError", "noCallable", "throws"
      [] OTHER -> Throw

\* UpdateNoiseLevel with the multiplicative rule as the default
UpdateNoiseLevel_DefaultTimes(config, currentLevel) ==
    IF /\ config.method = "function"
       /\ config.hasFuncConfig
       /\ StringTruthy(config.noiseStepCode)
    THEN LET result == RunNoiseStep(config.noiseStepCode, currentLevel)
         IN  IF result.thrown
             THEN Return(JSMul(currentLevel, Num(11, 10)))
             ELSE result
    ELSE Return(JSMul(currentLevel, Num(11, 10)))

\* UpdateNoiseLevel with the default rule in the catch branch
UpdateNoiseLevel_CatchPlus(config, currentLevel) ==
    IF /\ config.method = "function"
       /\ config.hasFuncConfig
       /\ StringTruthy(config.noiseStepCode)
    THEN LET result == RunNoiseStep(config.noiseStepCode, currentLevel)
         IN  IF result.thrown
             THEN Return(JSAdd(currentLevel, Num(1, 10)))
             ELSE result
    ELSE Return(JSAdd(currentLevel, Num(1, 10)))

UpdateNoiseLevel(config, currentLevel) ==
    IF /\ config.method = "function"
       /\ config.hasFuncConfig
       /\ StringTruthy(config.noiseStepCode)
    THEN LET result == RunNoiseStep(config.noiseStepCode, currentLevel)
         IN  IF result.thrown
             THEN Return(JSMul(currentLevel, Num(11, 10)))
             ELSE result
    ELSE Return(JSAdd(currentLevel, Num(1, 10)))

---------------------------------------------------------------------------
(* The random draws and the inputs of the model *)

\* noise levels passed to the generator and to updateNoiseLevel
NoiseLevels == { Num(0, 1), Num(1, 2), Num(3, 5), Num(1, 1), Num(2, 1) }

\* inclusion probabilities p
Probabilities == { Num(0, 1), Num(1, 10), Num(1, 1) }

\* generator texts used where a whole plot-set is assembled
PlotSetCodes == { "generateData", "short", "throws", "nanY" }

\* draws of the catch branch used where a whole plot-set is assembled:
\* the streams s+1, s+2, ... (mod Grid), one for each first draw
SeededDraws(count) ==
    { [i \in 1 .. (IF count > 0 THEN 2 * count ELSE 0) |-> (s + i) % Grid] :
        s \in MathRandom }

\* the draws of the permuteData calls made for the slots in `slots`, on
\* datasets of length len (the other slots of 1..n draw nothing)
ShuffleDrawsFor(n, slots, len) ==
    { [i \in 1 .. (IF n > 0 THEN n ELSE 0) |->
          IF i \in slots THEN f[i] ELSE <<>>] :
        f \in [slots -> ShuffleDraws(len)] }

\* the draws of the catch branch, where generateDataset reaches it
DatasetDraws(config, noiseLevel) ==
    IF config.hasFuncConfig /\ UsesFallback(config.code, config.r, noiseLevel)
    THEN SeededDraws(config.r)
    ELSE { <<>> }

\* the length of the dataset generateDataset returns (0 when it throws)
DatasetLen(config, noiseLevel, fallback) ==
    LET trueData == GenerateDataset(config, noiseLevel, fallback)
    IN  IF trueData.thrown THEN 0 ELSE Len(trueData.value)

\* the draws of one generateLineupData call
LineupDraws(config, truePos, noiseLevel) ==
    UNION { { [fallback |-> f, shuffle |-> sh] :
                sh \in ShuffleDrawsFor(config.n, (1 .. config.n) \ {truePos},
                                       DatasetLen(config, noiseLevel, f)) } :
            f \in DatasetDraws(config, noiseLevel) }

\* one draw of Math.random() for each outcome of Math.random() < p
ShowDraws(p) ==
    { CHOOSE u \in MathRandom : RandomBelow(u, p) = b :
        b \in { RandomBelow(u, p) : u \in MathRandom } }

\* the draws of one generateRorschachData call
RorschachDraws(config, p) ==
    UNION { LET showTrue == RandomBelow(show, p)
                n == IF showTrue THEN config.n - 1 ELSE config.n
            IN  { [fallback |-> f, show |-> show, pos |-> pos, shuffle |-> sh] :
                    pos \in (IF showTrue THEN MathRandom ELSE {0}),
                    sh \in ShuffleDrawsFor(n, 1 .. n,
                              DatasetLen(config, InitialNoiseLevel(config), f)) } :
            f \in DatasetDraws(config, InitialNoiseLevel(config)),
            show \in ShowDraws(p) }

---------------------------------------------------------------------------
(* apiService: initGameSession.  The fetch is a request in flight between  *)
(* the call that issues it and the arrival of its response; the callback   *)
(* of setTimeout is a step of its own.                                     *)

\* a promise created by initGameSession, with the request it issued
Promise(state, request) == [state |-> state, request |-> request]

\* the ways a request ends: response.ok, !response.ok, fetch or json() throws
Outcomes == { "ok", "notOk", "failed" }

\* the promises whose request has been sent and not answered
InFlight == { id \in 1 .. Len(promises) : promises[id].request = "inFlight" }

\* apiService as the module is loaded
ApiInit ==
    /\ sessionInitPromise = 0
    /\ promises = <<>>
    /\ timers = {}
    /\ localStorage \in { "none", "fresh", "stale" }
    /\ returned = <<>>

\* initGameSession with setTimeout called when the promise is created
initGameSession_TimerAtStart ==
    /\ Len(returned) < MaxApiCalls
    /\ IF sessionInitPromise # 0
       THEN /\ returned' = Append(returned, sessionInitPromise)
            /\ UNCHANGED <<sessionInitPromise, promises, timers, localStorage>>
       ELSE LET id == Len(promises) + 1
            IN  /\ sessionInitPromise' = id
                /\ returned' = Append(returned, id)
                /\ timers' = timers \cup {id}
                /\ IF localStorage = "fresh"
                   THEN /\ promises' = Append(promises, Promise("settled", "none"))
                        /\ UNCHANGED localStorage
                   ELSE /\ promises' = Append(promises, Promise("pending", "inFlight"))
                        /\ localStorage' = "none"

\* a call of initGameSession, up to its first await
initGameSession ==
    /\ Len(returned) < MaxApiCalls
    /\ IF sessionInitPromise # 0
       THEN /\ returned' = Append(returned, sessionInitPromise)
            /\ UNCHANGED <<sessionInitPromise, promises, timers, localStorage>>
       ELSE LET id == Len(promises) + 1
            IN  /\ sessionInitPromise' = id
                /\ returned' = Append(returned, id)
                /\ IF localStorage = "fresh"
                   THEN \* the stored session is returned; finally sets the timer
                        /\ promises' = Append(promises, Promise("settled", "none"))
                        /\ timers' = timers \cup {id}
                        /\ UNCHANGED localStorage
                   ELSE \* removeItem, then fetch
                        /\ promises' = Append(promises, Promise("pending", "inFlight"))
                        /\ localStorage' = "none"
                        /\ UNCHANGED timers

\* the request of promise id ends; the session is stored, the promise
\* settles and finally sets the timer
requestCompletes(id, outcome) ==
    /\ id \in InFlight
    /\ promises' = [promises EXCEPT ![id] = Promise("settled", outcome)]
    /\ localStorage' = "fresh"
    /\ timers' = timers \cup {id}
    /\ UNCHANGED <<sessionInitPromise, returned>>

\* the callback of setTimeout(..., 5000) set by promise id
clearSessionInitPromise(id) ==
    /\ id \in timers
    /\ sessionInitPromise' = 0
    /\ timers' = timers \ {id}
    /\ UNCHANGED <<promises, localStorage, returned>>

\* three seconds pass since the session was stored
sessionAges ==
    /\ localStorage = "fresh"
    /\ localStorage' = "stale"
    /\ UNCHANGED <<sessionInitPromise, promises, timers, returned>>

\* apiService never called, with no stored session
ApiIdle ==
    /\ sessionInitPromise = 0
    /\ promises = <<>>
    /\ timers = {}
    /\ localStorage = "none"
    /\ returned = <<>>

---------------------------------------------------------------------------
(* useApopheniaData: the Lineup records of the session data.  A state      *)
(* update runs with the call that queues it; the operations on the         *)
(* Rorschach and setup fields leave lineupData and the ref untouched and   *)
(* are not drawn.                                                          *)

\* createInitialSessionData, its lineupData
InitialSessionData == [rounds |-> <<>>, roundsCompleted |-> 0, finalScore |-> 0]

\* the record startLineupRound appends (userSelection 0: null)
RoundRecord(round, truePos) ==
    [round |-> round, truePos |-> truePos, userSelection |-> 0, correct |-> FALSE]

HookInit ==
    /\ sessionData = InitialSessionData
    /\ lineupRoundStartTime = FALSE

startLineupRound(round, truePos) ==
    /\ Len(sessionData.rounds) < MaxRounds
    /\ lineupRoundStartTime' = TRUE
    /\ sessionData' = [sessionData EXCEPT
                         !.rounds = Append(@, RoundRecord(round, truePos))]

recordLineupSelection(selection, correct) ==
    IF lineupRoundStartTime
    THEN LET rounds == sessionData.rounds
             lastIndex == Len(rounds)
         IN  /\ sessionData' =
                   [sessionData EXCEPT
                      !.rounds = IF lastIndex >= 1
                                 THEN [rounds EXCEPT ![lastIndex] =
                                         [@ EXCEPT !.userSelection = selection,
                                                   !.correct = correct]]
                                 ELSE rounds,
                      !.roundsCompleted = @ + 1]
             /\ lineupRoundStartTime' = FALSE
    ELSE UNCHANGED <<sessionData, lineupRoundStartTime>>

recordGameEnd(score) ==
    /\ sessionData' = [sessionData EXCEPT !.finalScore = score]
    /\ UNCHANGED lineupRoundStartTime

resetSessionData ==
    /\ sessionData' = InitialSessionData
    /\ UNCHANGED lineupRoundStartTime

---------------------------------------------------------------------------
(* App.tsx with LineupProtocol and RorschachProtocol.  An action is one    *)
(* event handler together with the re-render and the effects that follow   *)
(* its state update.                                                       *)

\* the smallest points-per-plot the setup form offers; games are played with it
MinR == 2

\* the inclusion probability RorschachProtocol passes
RorschachP == Num(1, 10)

\* config: null
NullConfig == [method |-> "null", n |-> 0, r |-> 0, hasFuncConfig |-> FALSE,
               code |-> "", noiseStepCode |-> NoCode, initialNoiseLevel |-> Undefined]

\* the configurations startGame is called with
GameConfigs ==
    { GameConfig(n, MinR, TRUE, "generateData", sc, lv) :
        n \in 2 .. MaxN,
        sc \in { "", "add03", "decrease", "throws", "returnsUndefined" },
        lv \in { Undefined, Num(0, 1), Num(1, 1) } }
    \cup { GameConfig(n, MinR, TRUE, "throws", "", Num(1, 2)) : n \in 2 .. MaxN }
    \cup { GameConfig(n, MinR, TRUE, "generateData", "throws", Num(-1, 1)) :
             n \in 2 .. MaxN }

\* a === b on numbers
StrictEquals(a, b) == a = b /\ a # NaN

InitialGameState ==
    [stage |-> "setup", config |-> NullConfig, protocol |-> "null", score |-> 0,
     roundsPlayed |-> 0, currentNoiseLevel |-> Num(1, 2), currentTruePos |-> 0]

\* LineupProtocol before its first effect (selectedIndex 0: null)
LineupUnmounted ==
    [mounted |-> FALSE, datasets |-> <<>>, selectedIndex |-> 0,
     initializedRoundRef |-> [round |-> -1, noiseLevel |-> Num(-1, 1)]]

RorschachUnmounted == [mounted |-> FALSE, datasets |-> <<>>]

\* a call of a dataGenerator function, with the noise level it is given
Call(name, noiseLevel) == [fn |-> name, noiseLevel |-> noiseLevel]

AppInit ==
    /\ gameState = InitialGameState
    /\ lineup = LineupUnmounted
    /\ rorschach = RorschachUnmounted
    /\ crashed = FALSE
    /\ calls = {}
    /\ answers = <<>>
    /\ clicked = 0
    /\ restarted = FALSE

\* TruePosDraws without the + 1
TruePosDraws_ZeroBased(n) == { RandomFloor(u, n) : u \in MathRandom }

\* Math.floor(Math.random() * n) + 1
TruePosDraws(n) == { RandomFloor(u, n) + 1 : u \in MathRandom }

\* the conditions under which App renders the two protocol components
LineupRendered(gs) ==
    gs.stage = "lineup" /\ gs.config # NullConfig /\ gs.currentTruePos # 0
RorschachRendered(gs) ==
    gs.stage = "rorschach" /\ gs.config # NullConfig

\* LineupEffect without the test of initializedRoundRef
LineupEffect_Unguarded(comp, config, truePos, round, noiseLevel, rnd) ==
    [comp EXCEPT
       !.datasets = GenerateLineupData(config, truePos, noiseLevel, rnd).value,
       !.initializedRoundRef = [round |-> round, noiseLevel |-> noiseLevel],
       !.selectedIndex = 0]

\* LineupEffect without setSelectedIndex(null)
LineupEffect_KeepsSelection(comp, config, truePos, round, noiseLevel, rnd) ==
    LET roundChanged == comp.initializedRoundRef.round # round
        noiseLevelChanged ==
            ~StrictEquals(comp.initializedRoundRef.noiseLevel, noiseLevel)
    IN  IF roundChanged \/ noiseLevelChanged
        THEN [comp EXCEPT
                !.datasets = GenerateLineupData(config, truePos, noiseLevel, rnd).value,
                !.initializedRoundRef = [round |-> round, noiseLevel |-> noiseLevel]]
        ELSE comp

\* LineupEffect that generates a plot-set only while none is held: later rounds
\* keep the plots of the first
LineupEffect_StalePlots(comp, config, truePos, round, noiseLevel, rnd) ==
    LET roundChanged == comp.initializedRoundRef.round # round
        noiseLevelChanged ==
            ~StrictEquals(comp.initializedRoundRef.noiseLevel, noiseLevel)
    IN  IF roundChanged \/ noiseLevelChanged
        THEN [comp EXCEPT
                !.datasets = IF comp.datasets = <<>>
                             THEN GenerateLineupData(config, truePos, noiseLevel, rnd).value
                             ELSE comp.datasets,
                !.initializedRoundRef = [round |-> round, noiseLevel |-> noiseLevel],
                !.selectedIndex = 0]
        ELSE comp

\* LineupProtocol's round-initialisation effect on the component comp
LineupEffect(comp, config, truePos, round, noiseLevel, rnd) ==
    LET roundChanged == comp.initializedRoundRef.round # round
        noiseLevelChanged ==
            ~StrictEquals(comp.initializedRoundRef.noiseLevel, noiseLevel)
    IN  IF roundChanged \/ noiseLevelChanged
        THEN [comp EXCEPT
                !.datasets = GenerateLineupData(config, truePos, noiseLevel, rnd).value,
                !.initializedRoundRef = [round |-> round, noiseLevel |-> noiseLevel],
                !.selectedIndex = 0]
        ELSE comp

\* whether the effect calls generateLineupData
LineupEffectRuns(comp, round, noiseLevel) ==
    \/ comp.initializedRoundRef.round # round
    \/ ~StrictEquals(comp.initializedRoundRef.noiseLevel, noiseLevel)

\* the tree is removed: no component state is left
Crash(gs, made) ==
    /\ gameState' = gs
    /\ crashed' = TRUE
    /\ lineup' = LineupUnmounted
    /\ rorschach' = RorschachUnmounted
    /\ calls' = made

\* the state update to gs, the re-render of App and the effects; `made` are
\* the dataGenerator calls the handler made itself
Render(gs, made) ==
    IF LineupRendered(gs)
    THEN IF ~TypeofNumber(gs.currentNoiseLevel)
         THEN Crash(gs, made)     \* noiseLevel.toFixed(2) throws
         ELSE LET comp == IF lineup.mounted THEN lineup
                          ELSE [LineupUnmounted EXCEPT !.mounted = TRUE]
                  round == gs.roundsPlayed + 1
              IN  /\ gameState' = gs
                  /\ crashed' = FALSE
                  /\ rorschach' = RorschachUnmounted
                  /\ IF LineupEffectRuns(comp, round, gs.currentNoiseLevel)
                     THEN /\ \E rnd \in LineupDraws(gs.config, gs.currentTruePos,
                                                    gs.currentNoiseLevel) :
                                lineup' = LineupEffect(comp, gs.config, gs.currentTruePos,
                                              round, gs.currentNoiseLevel, rnd)
                          /\ calls' = made \cup
                                { Call("generateLineupData", gs.currentNoiseLevel) }
                     ELSE /\ lineup' = comp
                          /\ calls' = made
    ELSE IF RorschachRendered(gs)
    THEN \E rnd \in RorschachDraws(gs.config, RorschachP) :
            LET initial == GenerateRorschachData(gs.config, RorschachP, rnd)
            IN  IF initial.thrown
                THEN Crash(gs, made \cup { Call("generateRorschachData",
                                                InitialNoiseLevel(gs.config)) })
                ELSE /\ gameState' = gs
                     /\ crashed' = FALSE
                     /\ lineup' = LineupUnmounted
                     /\ rorschach' = IF rorschach.mounted THEN rorschach
                                     ELSE [mounted |-> TRUE, datasets |-> initial.value]
                     /\ calls' = made \cup { Call("generateRorschachData",
                                                  InitialNoiseLevel(gs.config)) }
    ELSE /\ gameState' = gs
         /\ crashed' = FALSE
         /\ lineup' = LineupUnmounted
         /\ rorschach' = RorschachUnmounted
         /\ calls' = made

startGame(config) ==
    /\ ~crashed
    /\ gameState.stage = "setup"
    /\ Render([gameState EXCEPT !.stage = "protocol-selection",
                                !.config = config,
                                !.currentNoiseLevel = InitialNoiseLevel(config)], {})
    /\ UNCHANGED answers
    /\ clicked' = 0
    /\ UNCHANGED restarted

selectProtocol(protocol) ==
    /\ ~crashed
    /\ gameState.stage = "protocol-selection"
    /\ \E truePos \in (IF protocol = "lineup"
                       THEN TruePosDraws(gameState.config.n) ELSE {0}) :
          Render([gameState EXCEPT
                    !.stage = IF protocol = "rorschach" THEN "rorschach" ELSE "lineup",
                    !.protocol = protocol,
                    !.currentTruePos = truePos], {})
    /\ UNCHANGED answers
    /\ clicked' = 0
    /\ restarted' = FALSE

\* RorschachProtocol's "Generate New Plots".  The re-render evaluates the
\* useState argument generateRorschachData(config, 0.1) once more and drops
\* its value; that call leaves no state and is not drawn here.
regenerateData ==
    /\ ~crashed
    /\ rorschach.mounted
    /\ \E rnd \in RorschachDraws(gameState.config, RorschachP) :
          LET newDatasets == GenerateRorschachData(gameState.config, RorschachP, rnd)
              made == { Call("generateRorschachData", InitialNoiseLevel(gameState.config)) }
          IN  IF newDatasets.thrown
              THEN Crash(gameState, made)
              ELSE /\ rorschach' = [rorschach EXCEPT !.datasets = newDatasets.value]
                   /\ calls' = made
                   /\ UNCHANGED <<gameState, lineup, crashed>>
    /\ UNCHANGED answers
    /\ clicked' = 0
    /\ UNCHANGED restarted

\* skipRorschach with the noise level stepped on the way to the first round
skipRorschach_StepsNoise ==
    /\ ~crashed
    /\ rorschach.mounted
    /\ \E truePos \in TruePosDraws(gameState.config.n) :
          Render([gameState EXCEPT
                    !.stage = "lineup",
                    !.protocol = "lineup",
                    !.currentNoiseLevel =
                        UpdateNoiseLevel(gameState.config,
                                         gameState.currentNoiseLevel).value,
                    !.currentTruePos = truePos],
                 { Call("updateNoiseLevel", gameState.currentNoiseLevel) })
    /\ UNCHANGED answers
    /\ clicked' = 0
    /\ UNCHANGED restarted

\* RorschachProtocol's onContinue
skipRorschach ==
    /\ ~crashed
    /\ rorschach.mounted
    /\ \E truePos \in TruePosDraws(gameState.config.n) :
          Render([gameState EXCEPT !.stage = "lineup",
                                   !.protocol = "lineup",
                                   !.currentTruePos = truePos], {})
    /\ UNCHANGED answers
    /\ clicked' = 0
    /\ UNCHANGED restarted

\* handleSelectionCorrect without the call of updateNoiseLevel
handleSelectionCorrect_KeepNoise(selectedPos) ==
    /\ selectedPos = gameState.currentTruePos
    /\ gameState.score < MaxScore
    /\ \E truePos \in TruePosDraws(gameState.config.n) :
          Render([gameState EXCEPT
                    !.score = gameState.score + 1,
                    !.roundsPlayed = gameState.roundsPlayed + 1,
                    !.currentTruePos = truePos], {})

\* App's onSelection, the answer selectedPos being right
handleSelectionCorrect(selectedPos) ==
    /\ selectedPos = gameState.currentTruePos
    /\ gameState.score < MaxScore
    /\ LET newNoiseLevel ==
              UpdateNoiseLevel(gameState.config, gameState.currentNoiseLevel).value
       IN  \E truePos \in TruePosDraws(gameState.config.n) :
              Render([gameState EXCEPT
                        !.score = gameState.score + 1,
                        !.roundsPlayed = gameState.roundsPlayed + 1,
                        !.currentNoiseLevel = newNoiseLevel,
                        !.currentTruePos = truePos],
                     { Call("updateNoiseLevel", gameState.currentNoiseLevel) })

\* handleSelectionWrong with the noise level stepped as on a right answer
handleSelectionWrong_StepsNoise(selectedPos) ==
    /\ selectedPos # gameState.currentTruePos
    /\ Render([gameState EXCEPT
                 !.stage = "results",
                 !.roundsPlayed = gameState.roundsPlayed + 1,
                 !.currentNoiseLevel =
                     UpdateNoiseLevel(gameState.config,
                                      gameState.currentNoiseLevel).value],
              { Call("updateNoiseLevel", gameState.currentNoiseLevel) })

\* handleSelectionWrong that ends the game without counting the round
handleSelectionWrong_NoRound(selectedPos) ==
    /\ selectedPos # gameState.currentTruePos
    /\ Render([gameState EXCEPT !.stage = "results"], {})

\* App's onSelection, the answer selectedPos being wrong
handleSelectionWrong(selectedPos) ==
    /\ selectedPos # gameState.currentTruePos
    /\ Render([gameState EXCEPT !.stage = "results",
                                !.roundsPlayed = gameState.roundsPlayed + 1], {})

handleSelection(selectedPos) ==
    \/ handleSelectionCorrect(selectedPos)
    \/ handleSelectionWrong(selectedPos)

\* the indexes of the plots PlotGrid shows
ShownIndexes == { lineup.datasets[i].index : i \in 1 .. Len(lineup.datasets) }

\* whether the plot shown with this index holds the true dataset
ShownTrue(index) ==
    \E i \in 1 .. Len(lineup.datasets) :
        lineup.datasets[i].index = index /\ lineup.datasets[i].isTrue

\* LineupProtocol's click on a plot that is not the current selection
handleSelectFirst(index) ==
    /\ ~crashed
    /\ lineup.mounted
    /\ index \in ShownIndexes
    /\ lineup.selectedIndex # index
    /\ lineup' = [lineup EXCEPT !.selectedIndex = index]
    /\ calls' = {}
    /\ clicked' = index
    /\ UNCHANGED restarted
    /\ UNCHANGED <<gameState, rorschach, crashed, answers>>

\* LineupProtocol's click on the plot that is the current selection
handleSelectConfirm(index) ==
    /\ ~crashed
    /\ lineup.mounted
    /\ index \in ShownIndexes
    /\ lineup.selectedIndex = index
    /\ handleSelection(index)
    /\ answers' = Append(answers, ShownTrue(index))
    /\ clicked' = 0
    /\ UNCHANGED restarted

\* restartGame that keeps the configuration and returns to the protocol choice
restartGame_KeepConfig ==
    /\ ~crashed
    /\ gameState.stage = "results"
    /\ gameState.config # NullConfig
    /\ Render([InitialGameState EXCEPT
                 !.stage = "protocol-selection",
                 !.config = gameState.config,
                 !.currentNoiseLevel = InitialNoiseLevel(gameState.config)], {})
    /\ answers' = <<>>
    /\ clicked' = 0
    /\ restarted' = TRUE

\* restartGame that spreads the old state and resets stage, config and
\* protocol only
restartGame_KeepScore ==
    /\ ~crashed
    /\ gameState.stage = "results"
    /\ gameState.config # NullConfig
    /\ Render([gameState EXCEPT !.stage = "setup",
                                !.config = NullConfig,
                                !.protocol = "null"], {})
    /\ answers' = <<>>
    /\ clicked' = 0
    /\ restarted' = TRUE

restartGame ==
    /\ ~crashed
    /\ gameState.stage = "results"
    /\ gameState.config # NullConfig
    /\ Render(InitialGameState, {})
    /\ answers' = <<>>
    /\ clicked' = 0
    /\ restarted' = TRUE

Next ==
    \/ (\E config \in GameConfigs : startGame(config)) /\ UNCHANGED notAppVars
    \/ (\E protocol \in {"rorschach", "lineup"} : selectProtocol(protocol))
          /\ UNCHANGED notAppVars
    \/ regenerateData /\ UNCHANGED notAppVars
    \/ skipRorschach /\ UNCHANGED notAppVars
    \/ (\E index \in 1 .. MaxN : handleSelectFirst(index)) /\ UNCHANGED notAppVars
    \/ (\E index \in 1 .. MaxN : handleSelectConfirm(index)) /\ UNCHANGED notAppVars
    \/ restartGame /\ UNCHANGED notAppVars

Init == AppInit /\ GenIdle /\ ApiIdle /\ HookInit

Spec == Init /\ [][Next]_vars

\* apiService alone: calls, request completions and timers interleaved
ApiNext ==
    \/ initGameSession /\ UNCHANGED notApiVars
    \/ (\E id \in 1 .. MaxApiCalls, outcome \in Outcomes :
           requestCompletes(id, outcome)) /\ UNCHANGED notApiVars
    \/ (\E id \in 1 .. MaxApiCalls : clearSessionInitPromise(id))
          /\ UNCHANGED notApiVars
    \/ sessionAges /\ UNCHANGED notApiVars

InitApi == AppInit /\ GenIdle /\ ApiInit /\ HookInit

SpecApi == InitApi /\ [][ApiNext]_vars

\* useApopheniaData alone: its operations called in any order
HookNext ==
    \/ (\E round \in 1 .. MaxRounds, truePos \in 1 .. 2 :
           startLineupRound(round, truePos)) /\ UNCHANGED notHookVars
    \/ (\E selection \in 1 .. 2, correct \in BOOLEAN :
           recordLineupSelection(selection, correct)) /\ UNCHANGED notHookVars
    \/ (\E score \in 0 .. 1 : recordGameEnd(score)) /\ UNCHANGED notHookVars
    \/ resetSessionData /\ UNCHANGED notHookVars

InitHook == AppInit /\ GenIdle /\ ApiIdle /\ HookInit

SpecHook == InitHook /\ [][HookNext]_vars

---------------------------------------------------------------------------
(* The generator's functions applied to bounded inputs *)

Points == { [x |-> Num(a, 1), y |-> Num(b, 1)] : a \in 0 .. 1, b \in 0 .. 2 }

Datasets == UNION { [1 .. len -> Points] : len \in 0 .. MaxR }

Configs(ns, rs, codes, stepCodes, levels) ==
    { GameConfig(n, r, h, c, sc, lv) :
        n \in ns, r \in rs, h \in BOOLEAN,
        c \in codes, sc \in stepCodes, lv \in levels }

GenInit ==
    /\ GenIdle
    /\ AppInit
    /\ ApiIdle
    /\ HookInit

CallGenerateFromFunction ==
    /\ fn = "none"
    /\ \E code \in GeneratorCodes, count \in (-1) .. MaxR,
          noiseLevel \in { Num(1, 2), Num(2, 1) } :
         \E draws \in IF UsesFallback(code, count, noiseLevel)
                      THEN FallbackDraws(count, MathRandom) ELSE { <<>> } :
            /\ fn' = "generateFromFunction"
            /\ host' = HostAfter(code, host)
            /\ args' = [code |-> code, count |-> count, noiseLevel |-> noiseLevel]
            /\ ret' = GenerateFromFunction(code, count, noiseLevel, draws)

CallPermuteData ==
    /\ fn = "none"
    /\ \E data \in Datasets :
         \E js \in ShuffleDraws(Len(data)) :
            /\ fn' = "permuteData"
            /\ host' = host
            /\ args' = [data |-> data, dataAfter |-> PermuteDataInput(data, js)]
            /\ ret' = Return(PermuteData(data, js))

\* arrays of elements told apart by identity, as the objects of an array are
Arrays ==
    UNION { { a \in [1 .. len -> 1 .. MaxLen] :
                \A i, k \in 1 .. len : a[i] = a[k] => i = k } : len \in 0 .. MaxLen }

CallShuffleArray ==
    /\ fn = "none"
    /\ \E array \in Arrays :
         \E js \in ShuffleDraws(Len(array)) :
            /\ fn' = "shuffleArray"
            /\ host' = host
            /\ args' = [array |-> array, draws |-> js]
            /\ ret' = Return(ShuffleArray(array, js))

CallGenerateLineupData ==
    /\ fn = "none"
    /\ \E config \in Configs(0 .. MaxN, 0 .. MaxR, PlotSetCodes, {NoCode}, {Num(1, 2)}) :
         \E truePos \in 1 .. (IF config.n > 0 THEN config.n ELSE 1) :
            LET noiseLevel == Num(1, 2)
            IN  \E rnd \in LineupDraws(config, truePos, noiseLevel) :
                  /\ fn' = "generateLineupData"
                  /\ host' = host
                  /\ args' = [config |-> config, truePos |-> truePos,
                              noiseLevel |-> noiseLevel,
                              trueData |-> GenerateDataset(config, noiseLevel,
                                                           rnd.fallback)]
                  /\ ret' = GenerateLineupData(config, truePos, noiseLevel, rnd)

CallGenerateRorschachData ==
    /\ fn = "none"
    /\ \E config \in Configs(0 .. MaxN, 0 .. MaxR, {"generateData", "throws"},
                             {NoCode}, {Undefined, Num(1, 1)}),
          p \in Probabilities :
         \E rnd \in RorschachDraws(config, p) :
            /\ fn' = "generateRorschachData"
            /\ host' = host
            /\ args' = [config |-> config, p |-> p,
                        trueData |-> GenerateDataset(config, InitialNoiseLevel(config),
                                                     rnd.fallback)]
            /\ ret' = GenerateRorschachData(config, p, rnd)

CallUpdateNoiseLevel ==
    /\ fn = "none"
    /\ \E config \in Configs({MaxN}, {MaxR}, {"generateData"}, StepCodes, {Undefined}),
          currentLevel \in NoiseLevels :
            /\ fn' = "updateNoiseLevel"
            /\ host' = IF config.hasFuncConfig
                       THEN HostAfter(config.noiseStepCode, host) ELSE host
            /\ args' = [config |-> config, currentLevel |-> currentLevel]
            /\ ret' = UpdateNoiseLevel(config, currentLevel)

\* the configuration of the LineupProtocol components of the harness
EffectConfig == GameConfig(2, MinR, TRUE, "generateData", "", Undefined)

\* the rounds and noise levels the effect is run with
EffectRounds == { 1, 2 }
EffectNoiseLevels == { Num(1, 2), Num(3, 5) }

\* LineupProtocol components: one just mounted, and the ones whose effect
\* has initialised a round, with and without a selected plot
LineupComponents ==
    { [LineupUnmounted EXCEPT !.mounted = TRUE] }
    \cup UNION { { [mounted |-> TRUE,
                    datasets |-> GenerateLineupData(EffectConfig, truePos,
                                                    noiseLevel, rnd).value,
                    selectedIndex |-> selectedIndex,
                    initializedRoundRef |->
                        [round |-> round, noiseLevel |-> noiseLevel]] :
                     rnd \in LineupDraws(EffectConfig, truePos, noiseLevel),
                     selectedIndex \in 0 .. EffectConfig.n } :
                 truePos \in 1 .. EffectConfig.n,
                 round \in EffectRounds,
                 noiseLevel \in EffectNoiseLevels }

\* the effect run on comp, and run once more with the same props
CallLineupEffect ==
    /\ fn = "none"
    /\ \E comp \in LineupComponents, truePos \in 1 .. EffectConfig.n,
          round \in EffectRounds, noiseLevel \in EffectNoiseLevels :
         \E rnd, again \in LineupDraws(EffectConfig, truePos, noiseLevel) :
            LET first == LineupEffect(comp, EffectConfig, truePos, round,
                                      noiseLevel, rnd)
            IN  /\ fn' = "lineupEffect"
                /\ host' = host
                /\ args' = [comp |-> comp, config |-> EffectConfig,
                            truePos |-> truePos, round |-> round,
                            noiseLevel |-> noiseLevel]
                /\ ret' = Return(
                      [first |-> first,
                       rerun |-> LineupEffect(first, EffectConfig, truePos, round,
                                              noiseLevel, again),
                       generated |-> << LineupEffectRuns(comp, round, noiseLevel),
                                        LineupEffectRuns(first, round, noiseLevel) >>])

GenNext ==
    \/ CallGenerateFromFunction /\ UNCHANGED notGenVars
    \/ CallPermuteData /\ UNCHANGED notGenVars
    \/ CallShuffleArray /\ UNCHANGED notGenVars
    \/ CallGenerateLineupData /\ UNCHANGED notGenVars
    \/ CallGenerateRorschachData /\ UNCHANGED notGenVars
    \/ CallUpdateNoiseLevel /\ UNCHANGED notGenVars
    \/ CallLineupEffect /\ UNCHANGED notGenVars

SpecGen == GenInit /\ [][GenNext]_vars

---------------------------------------------------------------------------
(* Properties *)

\* the indexes of the slots of a plot-set marked isTrue
TrueSlots(plots) == { i \in 1 .. Len(plots) : plots[i].isTrue }

\* the index fields of a plot-set are 1..Len in array order
IndexedInOrder(plots) == \A i \in 1 .. Len(plots) : plots[i].index = i

\* v occurs as often among the y-values of a as among those of b
SameCount(a, b, v) ==
    Cardinality({ i \in 1 .. Len(a) : a[i].y = v })
        = Cardinality({ i \in 1 .. Len(b) : b[i].y = v })

\* a finite number equal to n/d
IsRatio(v, n, d) == IsFinite(v) /\ v.num * d = n * v.den

\* k successive applications of updateNoiseLevel
RECURSIVE NoiseAfter(_, _, _)
NoiseAfter(config, level, k) ==
    IF k = 0 THEN level
    ELSE NoiseAfter(config, UpdateNoiseLevel(config, level).value, k - 1)

\* C1: for N >= 2 and truePos in 1..N, generateLineupData returns exactly N
\* slots, indexed 1..N in order, and the one slot marked isTrue is truePos.
C1_LineupSlots ==
    (/\ fn = "generateLineupData"
     /\ args.config.hasFuncConfig
     /\ args.config.n >= 2
     /\ args.truePos \in 1 .. args.config.n)
    => /\ ~ret.thrown
       /\ Len(ret.value) = args.config.n
       /\ IndexedInOrder(ret.value)
       /\ TrueSlots(ret.value) = { args.truePos }

C1_Witness ==
    /\ fn = "generateLineupData"
    /\ args.config.n = 3
    /\ args.truePos = 2
    /\ ~ret.thrown
    /\ Len(ret.value) = 3
    /\ ret.value[2].isTrue

\* C2: permuteData keeps the length and the x-sequence of its input, and its
\* y-values are the input's y-values as a multiset.
C2_PermuteKeepsMarginals ==
    fn = "permuteData"
    => /\ ~ret.thrown
       /\ Len(ret.value) = Len(args.data)
       /\ \A i \in 1 .. Len(args.data) : ret.value[i].x = args.data[i].x
       /\ \A i \in 1 .. Len(args.data) :
             /\ SameCount(ret.value, args.data, args.data[i].y)
             /\ SameCount(ret.value, args.data, ret.value[i].y)

C2_Witness ==
    /\ fn = "permuteData"
    /\ Len(args.data) = 2
    /\ args.data[1].y # args.data[2].y
    /\ ret.value[1].y = args.data[2].y
    /\ ret.value[2].y = args.data[1].y

\* C3: once the player has confirmed the true plot in k consecutive rounds and
\* then a wrong plot, the stage is 'results', score = k and currentNoiseLevel
\* is k applications of updateNoiseLevel to the initial noise level.
C3_RoundLoop ==
    (answers # <<>> /\ ~answers[Len(answers)])
    => /\ \A i \in 1 .. (Len(answers) - 1) : answers[i]
       /\ gameState.stage = "results"
       /\ gameState.score = Len(answers) - 1
       /\ gameState.currentNoiseLevel =
             NoiseAfter(gameState.config, InitialNoiseLevel(gameState.config),
                        Len(answers) - 1)

C3_Witness ==
    /\ answers = <<TRUE, TRUE, FALSE>>
    /\ gameState.stage = "results"
    /\ gameState.score = 2
    /\ gameState.config.noiseStepCode = "throws"
    /\ gameState.config.initialNoiseLevel = Num(1, 1)
    /\ gameState.currentNoiseLevel = Num(121, 100)

\* C4: a confirmed position other than currentTruePos moves the stage from
\* 'lineup' to 'results', leaves score, currentNoiseLevel, config and
\* currentTruePos as they were and calls no updateNoiseLevel, and no step
\* that ends in 'results' calls generateLineupData.
C4_WrongAnswerFrame ==
    [][/\ (/\ gameState.stage = "lineup"
           /\ Len(answers') = Len(answers) + 1
           /\ lineup.selectedIndex # gameState.currentTruePos)
          => /\ gameState'.stage = "results"
             /\ gameState'.score = gameState.score
             /\ gameState'.currentNoiseLevel = gameState.currentNoiseLevel
             /\ gameState'.config = gameState.config
             /\ gameState'.currentTruePos = gameState.currentTruePos
             /\ \A c \in calls' : c.fn # "updateNoiseLevel"
       /\ gameState'.stage = "results"
          => /\ \A c \in calls' : c.fn # "generateLineupData"
             /\ ~lineup'.mounted]_vars

C4_Witness ==
    /\ gameState.stage = "results"
    /\ gameState.score = 1
    /\ gameState.roundsPlayed = 2
    /\ calls = {}
    /\ ~lineup.mounted

\* the stage changes of the game
StageEdges ==
    { <<"setup", "protocol-selection">>,
      <<"protocol-selection", "rorschach">>,
      <<"protocol-selection", "lineup">>,
      <<"rorschach", "lineup">>,
      <<"lineup", "lineup">>,
      <<"lineup", "results">>,
      <<"results", "setup">> }

\* C5: the stage changes only along setup -> protocol-selection ->
\* {rorschach, lineup}, rorschach -> lineup, lineup -> lineup,
\* lineup -> results and results -> setup.
C5_StageEdges ==
    [][gameState'.stage # gameState.stage
          => <<gameState.stage, gameState'.stage>> \in StageEdges]_vars

C5_Witness ==
    /\ gameState.stage = "results"
    /\ gameState.protocol = "lineup"
    /\ gameState.score >= 1

\* C6: for count >= 1, when the generator procedure throws, does not compile,
\* returns a non-array or returns an element that is no object or lacks a
\* numeric y, generateFromFunction does not throw and returns count points
\* with finite numeric x and y.
C6_FallbackOnBadProcedure ==
    (/\ fn = "generateFromFunction"
     /\ args.count >= 1
     /\ args.code \in { "throws", "syntaxError", "nonArray", "nonObjectItem", "missingY" })
    => /\ ~ret.thrown
       /\ Len(ret.value) = args.count
       /\ \A i \in 1 .. Len(ret.value) :
             IsFinite(ret.value[i].x) /\ IsFinite(ret.value[i].y)

C6_Witness ==
    /\ fn = "generateFromFunction"
    /\ args.code = "missingY"
    /\ args.count = 2
    /\ ~ret.thrown
    /\ Len(ret.value) = 2
    /\ ret.value[1].y # ret.value[2].y

\* C7: generateRorschachData returns at most one slot marked isTrue, none
\* when p = 0 and exactly one when p = 1.
C7_RorschachTrueCount ==
    (fn = "generateRorschachData" /\ ~ret.thrown)
    => /\ Cardinality(TrueSlots(ret.value)) <= 1
       /\ IsRatio(args.p, 0, 1) => TrueSlots(ret.value) = {}
       /\ IsRatio(args.p, 1, 1) => Cardinality(TrueSlots(ret.value)) = 1

C7_Witness ==
    /\ fn = "generateRorschachData"
    /\ IsRatio(args.p, 1, 1)
    /\ args.config.n = 3
    /\ ~ret.thrown
    /\ TrueSlots(ret.value) = {2}

\* C8: for N >= 1 generateRorschachData returns exactly N slots indexed 1..N
\* in array order, also after the true dataset is inserted; the true
\* dataset's position lies in 1..N and every position in 1..N can be drawn.
C8_RorschachIndexes ==
    /\ (/\ fn = "generateRorschachData"
        /\ args.config.hasFuncConfig
        /\ args.config.n >= 1)
       => /\ ~ret.thrown
          /\ Len(ret.value) = args.config.n
          /\ IndexedInOrder(ret.value)
          /\ TrueSlots(ret.value) \subseteq 1 .. args.config.n
    /\ \A n \in 1 .. MaxN :
          { RorschachTruePos(n - 1, u) : u \in MathRandom } = 1 .. n

C8_Witness ==
    /\ fn = "generateRorschachData"
    /\ args.config.n = 3
    /\ ~ret.thrown
    /\ Len(ret.value) = 3
    /\ TrueSlots(ret.value) = {1}
    /\ ret.value[2].index = 2

\* C9: with no progression procedure text (absent or empty),
\* updateNoiseLevel returns currentLevel + 0.1 (0.5 -> 0.6), and not
\* currentLevel * 1.1 wherever the two differ.
C9_DefaultStep ==
    (fn = "updateNoiseLevel" /\ args.config.noiseStepCode \in { NoCode, "" })
    => LET lv == args.currentLevel
       IN  /\ ~ret.thrown
           /\ IsRatio(ret.value, 10 * lv.num + lv.den, 10 * lv.den)
           /\ lv = Num(1, 2) => ret.value = Num(3, 5)
           /\ lv # Num(1, 1) => ~IsRatio(ret.value, 11 * lv.num, 10 * lv.den)

C9_Witness ==
    /\ fn = "updateNoiseLevel"
    /\ args.config.noiseStepCode = ""
    /\ args.config.hasFuncConfig
    /\ args.currentLevel = Num(1, 2)
    /\ ret.value = Num(3, 5)

\* C10: with a progression procedure text that does not compile, defines no
\* updateNoiseLevel or throws, updateNoiseLevel does not throw and returns
\* currentLevel * 1.1, not currentLevel + 0.1.
C10_BrokenStep ==
    (/\ fn = "updateNoiseLevel"
     /\ args.config.hasFuncConfig
     /\ args.config.noiseStepCode \in { "syntaxError", "noCallable", "throws" })
    => LET lv == args.currentLevel
       IN  /\ ~ret.thrown
           /\ IsRatio(ret.value, 11 * lv.num, 10 * lv.den)
           /\ lv # Num(1, 1) => ~IsRatio(ret.value, 10 * lv.num + lv.den, 10 * lv.den)

C10_Witness ==
    /\ fn = "updateNoiseLevel"
    /\ args.config.noiseStepCode = "throws"
    /\ args.config.hasFuncConfig
    /\ args.currentLevel = Num(1, 2)
    /\ ret.value = Num(11, 20)

\* the x-values of a dataset, in order
XSequence(data) == [i \in 1 .. Len(data) |-> data[i].x]

\* the y-values of a are those of b as a multiset
SameYValues(a, b) ==
    /\ Len(a) = Len(b)
    /\ \A i \in 1 .. Len(a) : SameCount(a, b, a[i].y) /\ SameCount(a, b, b[i].y)

\* C11: in the plot-set generateLineupData returns, the slot at truePos holds
\* the dataset the one generateDataset call returned, point for point, and
\* every other slot holds the same x-sequence with a permutation of that
\* dataset's y-values.
C11_TrueSlotAndDecoys ==
    (/\ fn = "generateLineupData"
     /\ ~ret.thrown
     /\ args.truePos \in 1 .. args.config.n)
    => /\ ~args.trueData.thrown
       /\ ret.value[args.truePos].data = args.trueData.value
       /\ \A i \in 1 .. Len(ret.value) :
             /\ XSequence(ret.value[i].data) = XSequence(args.trueData.value)
             /\ SameYValues(ret.value[i].data, args.trueData.value)

C11_Witness ==
    /\ fn = "generateLineupData"
    /\ args.config.n = 3
    /\ args.config.r = 2
    /\ args.config.code = "throws"
    /\ args.truePos = 2
    /\ ~ret.thrown
    /\ ret.value[2].data = args.trueData.value
    /\ ret.value[1].data # args.trueData.value
    /\ XSequence(ret.value[1].data) = XSequence(args.trueData.value)

\* the step from a confirmed right answer to the next round
RightAnswerStep ==
    /\ gameState.stage = "lineup"
    /\ Len(answers') = Len(answers) + 1
    /\ lineup.selectedIndex = gameState.currentTruePos

\* the progression texts that end in updateNoiseLevel's catch branch
FailedStepCodes == { "syntaxError", "noCallable", "throws" }

C13_InvalidConfigRaises ==
    (/\ fn = "generateLineupData"
     /\ (args.config.n < 2 \/ args.config.r <= 0))
    => ret.thrown

\* every slot of a plot-set holds a dataset of length len
SlotLengths(plots, len) == \A i \in 1 .. Len(plots) : Len(plots[i].data) = len

\* C14: a dataset generateFromFunction returns has the length of the array
\* the user generator returned when that array passes the validation, and
\* length count when the catch branch builds it; every dataset of a Lineup
\* or Rorschach plot-set has the length of the one generated dataset.
C14_DatasetLength ==
    /\ (fn = "generateFromFunction" /\ ~ret.thrown)
       => Len(ret.value) =
             IF UsesFallback(args.code, args.count, args.noiseLevel)
             THEN args.count
             ELSE Len(RunGenerator(args.code, args.count, args.noiseLevel).items)
    /\ (fn \in { "generateLineupData", "generateRorschachData" } /\ ~ret.thrown)
       => SlotLengths(ret.value, Len(args.trueData.value))

C14_Witness ==
    /\ fn = "generateLineupData"
    /\ args.config.code = "short"
    /\ args.config.r = 2
    /\ args.config.n = 2
    /\ ~ret.thrown
    /\ SlotLengths(ret.value, 1)

\* C14 as claimed: every returned dataset, and every dataset of a plot-set,
\* has length count (config.r), whatever the user generator returns
C14_LengthIsR ==
    /\ (fn = "generateFromFunction" /\ args.count >= 1 /\ ~ret.thrown)
       => Len(ret.value) = args.count
    /\ (/\ fn \in { "generateLineupData", "generateRorschachData" }
        /\ args.config.r >= 1
        /\ ~ret.thrown)
       => SlotLengths(ret.value, args.config.r)

\* C15: every point of every dataset generateFromFunction returns has finite
\* numeric x and y; a result with a NaN or infinite field is replaced by the
\* fallback dataset.
C15_FiniteFields ==
    (fn = "generateFromFunction" /\ ~ret.thrown)
    => \A i \in 1 .. Len(ret.value) :
          IsFinite(ret.value[i].x) /\ IsFinite(ret.value[i].y)

\* C16: for the text "otherName", which defines the callable of the text
\* "generateData" under another name, generateFromFunction returns that
\* callable's validated output for (count, noiseLevel), not the fallback.
C16_LastCallableUsed ==
    (/\ fn = "generateFromFunction"
     /\ args.code = "otherName"
     /\ args.count >= 1)
    => ret = GenerateFromFunction("generateData", args.count, args.noiseLevel, <<>>)

\* the initial noise level of the configuration, 0.5 standing in for none
SuppliedNoiseLevel(config) ==
    IF config.hasFuncConfig /\ config.initialNoiseLevel # Undefined
    THEN config.initialNoiseLevel
    ELSE Num(1, 2)

\* C17: startGame(config) sets currentNoiseLevel to the supplied initial
\* noise level, 0 included, and to 0.5 only when none is supplied; the first
\* Lineup round and every Rorschach screen are generated at that level.
C17_InitialNoiseLevel ==
    [][/\ (gameState.stage = "setup" /\ gameState'.stage = "protocol-selection")
          => gameState'.currentNoiseLevel = SuppliedNoiseLevel(gameState'.config)
       /\ \A c \in calls' :
             \/ c.fn = "generateRorschachData"
             \/ (c.fn = "generateLineupData" /\ gameState'.roundsPlayed = 0)
             => c.noiseLevel = SuppliedNoiseLevel(gameState'.config)]_vars

C19_EffectGuard ==
    fn = "lineupEffect"
    => LET comp == args.comp
           pair == [round |-> args.round, noiseLevel |-> args.noiseLevel]
           first == ret.value.first
       IN  /\ comp.initializedRoundRef = pair
              => first = comp /\ ~ret.value.generated[1]
           /\ comp.initializedRoundRef # pair
              => /\ ret.value.generated[1]
                 /\ first.selectedIndex = 0
                 /\ first.initializedRoundRef = pair
                 /\ \E rnd \in LineupDraws(args.config, args.truePos, args.noiseLevel) :
                       first.datasets =
                          GenerateLineupData(args.config, args.truePos,
                                             args.noiseLevel, rnd).value
           /\ ret.value.rerun = first
           /\ ~ret.value.generated[2]

C19_Witness ==
    /\ fn = "lineupEffect"
    /\ args.comp.initializedRoundRef = [round |-> 2, noiseLevel |-> Num(3, 5)]
    /\ args.round = 2
    /\ args.noiseLevel = Num(3, 5)
    /\ args.comp.selectedIndex = 2
    /\ args.comp.datasets[1].isTrue
    /\ args.truePos = 2
    /\ ret.value.first = args.comp
    /\ ret.value.generated = <<FALSE, FALSE>>

\* C20: an answer is submitted only by a click on the plot that this round's
\* last selecting click selected, and the submitted position is that plot;
\* a selecting click submits nothing and leaves the game state as it is; and
\* a round starts with no plot selected.
C20_ConfirmOnSecondClick ==
    [][/\ Len(answers') = Len(answers) + 1
          => /\ clicked \in ShownIndexes
             /\ lineup.selectedIndex = clicked
             /\ answers'[Len(answers')] = ShownTrue(clicked)
             /\ gameState'.stage = "results" <=> clicked # gameState.currentTruePos
       /\ (clicked' # 0 /\ clicked' # clicked)
          => /\ lineup'.selectedIndex = clicked'
             /\ answers' = answers
             /\ gameState' = gameState
             /\ lineup'.datasets = lineup.datasets
       /\ (lineup'.mounted /\ (~lineup.mounted
                               \/ gameState'.roundsPlayed # gameState.roundsPlayed))
          => lineup'.selectedIndex = 0 /\ clicked' = 0]_vars

C20_Witness ==
    /\ gameState.stage = "lineup"
    /\ gameState.roundsPlayed = 1
    /\ answers = <<TRUE>>
    /\ gameState.currentTruePos = 1
    /\ lineup.selectedIndex = 2
    /\ clicked = 2

\* C21: at most one session-initialisation request is in flight; while a
\* promise is pending or its clearing timer runs it is the cached promise;
\* and a call made while a promise is cached returns that promise and
\* issues no request.
C21_SingleFlight ==
    [][/\ Cardinality(InFlight') <= 1
       /\ \A id \in 1 .. Len(promises') :
             (promises'[id].state = "pending" \/ id \in timers')
             => sessionInitPromise' = id
       /\ (Len(returned') = Len(returned) + 1 /\ sessionInitPromise # 0)
          => /\ returned'[Len(returned')] = sessionInitPromise
             /\ promises' = promises]_vars

C21_Witness ==
    /\ Len(promises) = 2
    /\ promises[1].request = "notOk"
    /\ InFlight = {2}
    /\ returned = <<1, 1, 2, 2>>

\* the records of the session data with a user selection
Finalised(data) ==
    { i \in 1 .. Len(data.rounds) : data.rounds[i].userSelection # 0 }

\* C22: roundsCompleted equals the number of finalised records and never
\* exceeds the number of records; a recordLineupSelection with no
\* startLineupRound since the last selection changes nothing; and a
\* finalised record stays as it is while the session's records are kept.
C22_RoundRecords ==
    [][/\ sessionData'.roundsCompleted = Cardinality(Finalised(sessionData'))
       /\ sessionData'.roundsCompleted <= Len(sessionData'.rounds)
       /\ (~lineupRoundStartTime /\ Len(sessionData'.rounds) = Len(sessionData.rounds))
          => sessionData'.rounds = sessionData.rounds
       /\ \A i \in Finalised(sessionData) :
             Len(sessionData'.rounds) >= Len(sessionData.rounds)
             => sessionData'.rounds[i] = sessionData.rounds[i]]_vars

\* C23: updateNoiseLevel always returns a number; when the progression
\* procedure runs without throwing and returns a non-number, the result is
\* currentLevel * 1.1.
C23_NumericResult ==
    (fn = "updateNoiseLevel" /\ args.config.hasFuncConfig)
    => /\ ~ret.thrown
       /\ TypeofNumber(ret.value)
       /\ args.config.noiseStepCode = "returnsUndefined"
          => ret.value = JSMul(args.currentLevel, Num(11, 10))

\* C24: while the stage is 'lineup', currentTruePos is in 1..config.n; each
\* step that enters the stage or starts a next round sets it to a draw of
\* Math.floor(Math.random() * n) + 1, and every position in 1..n is such a
\* draw.
C24_TruePosInRange ==
    [][/\ gameState'.stage = "lineup"
          => gameState'.currentTruePos \in 1 .. gameState'.config.n
       /\ (/\ gameState'.stage = "lineup"
           /\ \/ gameState.stage # "lineup"
              \/ gameState'.roundsPlayed # gameState.roundsPlayed)
          => /\ gameState'.currentTruePos \in TruePosDraws(gameState'.config.n)
             /\ TruePosDraws(gameState'.config.n) = 1 .. gameState'.config.n]_vars

C24_Witness ==
    /\ gameState.stage = "lineup"
    /\ gameState.score = 2
    /\ gameState.config.n = 3
    /\ gameState.currentTruePos = 3
    /\ lineup.mounted
    /\ TrueSlots(lineup.datasets) = {3}

\* C25: a run of a user generator or progression procedure leaves the host
\* state outside the returned value as it was.
C25_HostUntouched ==
    fn \in { "generateFromFunction", "updateNoiseLevel" } => host = "untouched"


\* the index array 0 .. m-1 of an array of length m, 1-based as sequences are
Positions(m) == [k \in 1 .. m |-> k]

\* C26: shuffleArray on an array of length m takes one draw j in 0..i for each
\* i from m-1 down to 1 and each j of that range can be drawn; the result is
\* the input rearranged by a permutation of its positions; every permutation
\* of the positions comes from exactly one sequence of draws; an array of
\* length 0 or 1 is returned as it is, with no draw.
C26_FisherYates ==
    fn = "shuffleArray" =>
        LET array == args.array
            m == Len(array)
            js == args.draws
            out == ret.value
            pos == ShuffleArray(Positions(m), js)
        IN  /\ ~ret.thrown
            /\ DOMAIN js = 1 .. (m - 1)
            /\ \A i \in 1 .. (m - 1) : js[i] \in 0 .. i
            /\ \A i \in 1 .. (m - 1) : RandomIndex(i + 1) = 0 .. i
            /\ pos \in Permutations(1 .. m)
            /\ out = [k \in 1 .. m |-> array[pos[k]]]
            /\ \A p \in Permutations(1 .. m) :
                 Cardinality({ d \in ShuffleDraws(m) :
                                 ShuffleArray(Positions(m), d) = p }) = 1
            /\ m <= 1 => js = <<>> /\ out = array

\* a shuffle of a longest array that leaves no element where it was
C26_Witness ==
    /\ fn = "shuffleArray"
    /\ Len(args.array) = MaxLen
    /\ \A k \in 1 .. MaxLen : ret.value[k] # args.array[k]


\* C27: within a game only a right Lineup answer changes currentNoiseLevel
\* (protocol selection, Rorschach regeneration, the continuation to Lineup
\* and a wrong answer leave it as it was), and at every point of a game it
\* is `score` applications of updateNoiseLevel to the level startGame set.
C27_NoiseFrame ==
    [][/\ (/\ gameState.stage # "setup"
           /\ gameState'.stage # "setup"
           /\ ~RightAnswerStep)
          => gameState'.currentNoiseLevel = gameState.currentNoiseLevel
       /\ gameState'.stage # "setup"
          => gameState'.currentNoiseLevel =
                NoiseAfter(gameState'.config,
                           InitialNoiseLevel(gameState'.config),
                           gameState'.score)]_vars

\* a game that took a right and then a wrong answer and ends with the level
\* of its second round
C27_Witness ==
    /\ gameState.stage = "results"
    /\ gameState.protocol = "lineup"
    /\ answers = <<TRUE, FALSE>>
    /\ gameState.config.noiseStepCode = "decrease"
    /\ gameState.config.initialNoiseLevel = Num(1, 1)
    /\ gameState.currentNoiseLevel = Num(9, 10)


\* the state startGame(config) leaves when nothing but config decides it
FreshGame(config) ==
    [stage |-> "protocol-selection", config |-> config, protocol |-> "null",
     score |-> 0, roundsPlayed |-> 0,
     currentNoiseLevel |-> InitialNoiseLevel(config), currentTruePos |-> 0]

\* C28: whatever games were played before, restartGame leaves the initial
\* state and the startGame(config) after it leaves stage 'protocol-selection'
\* with score 0, roundsPlayed 0, no protocol, no true position, that config
\* and the noise level taken from that config alone; no component state and
\* no answer of an earlier game is left.
C28_NoCarryOver ==
    /\ gameState.stage = "setup" => gameState = InitialGameState
    /\ gameState.stage = "protocol-selection"
          => /\ gameState.config \in GameConfigs
             /\ gameState = FreshGame(gameState.config)
    /\ gameState.stage \in { "setup", "protocol-selection" }
          => /\ lineup = LineupUnmounted
             /\ rorschach = RorschachUnmounted
             /\ answers = <<>>

\* a second game set up after a first
C28_Witness ==
    /\ restarted
    /\ gameState = FreshGame(GameConfig(2, MinR, TRUE, "generateData", "add03", Undefined))


\* the number of right answers among this game's confirmed answers
RightAnswers == Cardinality({ i \in 1 .. Len(answers) : answers[i] })

\* C29: score <= roundsPlayed in every state; in stage 'lineup' score equals
\* roundsPlayed and the round LineupProtocol shows is score + 1; in stage
\* 'results' roundsPlayed is score + 1, the one wrong answer being the last;
\* score is the number of right answers given so far in the game and
\* roundsPlayed the number of answers, so score goes up by one with each right
\* answer and never down.
C29_ScoreAndRounds ==
    /\ gameState.score <= gameState.roundsPlayed
    /\ gameState.score = RightAnswers
    /\ gameState.roundsPlayed = Len(answers)
    /\ gameState.stage = "lineup"
          => /\ gameState.score = gameState.roundsPlayed
             /\ lineup.mounted
                   => lineup.initializedRoundRef.round = gameState.score + 1
    /\ gameState.stage = "results"
          => /\ gameState.roundsPlayed = gameState.score + 1
             /\ ~answers[Len(answers)]
    /\ gameState.stage \notin { "lineup", "results" }
          => gameState.score = 0 /\ gameState.roundsPlayed = 0

\* a game ended by a wrong answer in its third round
C29_Witness ==
    /\ gameState.stage = "results"
    /\ gameState.score = 2
    /\ gameState.roundsPlayed = 3
    /\ answers = <<TRUE, TRUE, FALSE>>


\* the step that submits an answer
AnswerStep == Len(answers') = Len(answers) + 1

\* C30: whenever LineupProtocol is on screen its plot-set has one isTrue slot,
\* at index currentTruePos, in every round; so when an answer is submitted the
\* plot shown as true is the one handleSelection compares against, and the
\* answer is scored right exactly when the clicked plot is the shown true one.
C30_ShownTrueIsTruePos ==
    [][/\ lineup'.mounted
          => /\ TrueSlots(lineup'.datasets) = { gameState'.currentTruePos }
             /\ \A index \in ShownIndexes' :
                   ShownTrue(index)' <=> index = gameState'.currentTruePos
       /\ AnswerStep
          => /\ lineup.mounted
             /\ TrueSlots(lineup.datasets) = { gameState.currentTruePos }
             /\ gameState'.score = gameState.score + 1
                   <=> ShownTrue(lineup.selectedIndex)
             /\ gameState'.stage = "results"
                   <=> ~ShownTrue(lineup.selectedIndex)]_vars

\* the second round of a game: the true plot is shown at the last index and
\* is selected, one click before its submission
C30_Witness ==
    /\ gameState.stage = "lineup"
    /\ answers = <<TRUE>>
    /\ gameState.roundsPlayed = 1
    /\ gameState.currentTruePos = MaxN
    /\ gameState.config.n = MaxN
    /\ lineup.selectedIndex = MaxN
    /\ ShownTrue(MaxN)

=============================================================================
